---- MODULE Spec2Model ----
(***************************************************************************)
(* Simulation core of the enhanced Pong game (src/PongAi.py): the paddles, *)
(* the ball, the match state and the frame loop of main().                 *)
(*                                                                         *)
(* Reals (Python floats) are fixed-point integers: a value v stands for    *)
(* v / SCALE, and every arithmetic operation rounds to the nearest         *)
(* representable value.  Drawing, sound, trail and particles are           *)
(* cosmetic and never feed back into the state modelled here.              *)
(***************************************************************************)
EXTENDS Integers, Sequences, FiniteSets, TLC

\* ------------------------------------------------------------ arithmetic

\* Fixed-point resolution: one unit is 1/1000 of a pixel (or of a radian).
SCALE == 1000

Abs(a) == IF a < 0 THEN -a ELSE a

Min(a, b) == IF a <= b THEN a ELSE b

Max(a, b) == IF a >= b THEN a ELSE b

\* a / b rounded to the nearest integer (b > 0), symmetric around 0.
RDiv(a, b) == IF a >= 0 THEN (2 * a + b) \div (2 * b)
              ELSE -((2 * (-a) + b) \div (2 * b))

\* Product of two fixed-point values.
Mul(a, b) == RDiv(a * b, SCALE)

\* math.pi
PI == 3142

\* Taylor series around 0, used for |x| <= PI/2.
SinT(x) ==
    LET x2 == Mul(x, x)
        t3 == RDiv(Mul(x, x2), 6)
        t5 == RDiv(Mul(t3, x2), 20)
        t7 == RDiv(Mul(t5, x2), 42)
        t9 == RDiv(Mul(t7, x2), 72)
    IN  x - t3 + t5 - t7 + t9

CosT(x) ==
    LET x2 == Mul(x, x)
        c2 == RDiv(x2, 2)
        c4 == RDiv(Mul(c2, x2), 12)
        c6 == RDiv(Mul(c4, x2), 30)
        c8 == RDiv(Mul(c6, x2), 56)
    IN  SCALE - c2 + c4 - c6 + c8

\* math.sin and math.cos on [-PI/2, 3*PI/2]: angles past PI/2 are reduced by PI.
Sin(x) == IF 2 * x > PI THEN -SinT(x - PI) ELSE SinT(x)

Cos(x) == IF 2 * x > PI THEN -CosT(x - PI) ELSE CosT(x)

RECURSIVE SqrtBetween(_, _, _)
\* The largest r in lo..hi with r * r <= n (lo * lo <= n < (hi + 1) * (hi + 1)).
SqrtBetween(n, lo, hi) ==
    IF lo >= hi THEN lo
    ELSE LET mid == (lo + hi + 1) \div 2
         IN  IF mid * mid <= n THEN SqrtBetween(n, mid, hi)
             ELSE SqrtBetween(n, lo, mid - 1)

\* math.sqrt of a product of two fixed-point values, rounded to nearest.
Sqrt(n) ==
    LET r == SqrtBetween(n, 0, 40000)
    IN  IF n - r * r > r THEN r + 1 ELSE r

\* ------------------------------------------------------------- constants

WIDTH == 1000

HEIGHT == 600

max_score == 10

\* Border band at the top and bottom of the playfield (Paddle.move).
BORDER == 20

\* Paddle.__init__ defaults.
PADDLE_WIDTH == 15

PADDLE_HEIGHT == 80

PADDLE_SPEED == 6

\* Ball.__init__ default radius.
RADIUS == 12

\* Ball.reset_ball: the base speed.
BASE_SPEED == 6

\* Ball.check_paddle_collision: the cap of the speed.
MAX_SPEED == 12

\* Ball.check_paddle_collision: the speed gained by a collision, 0.2.
SPEED_STEP == 200

\* Paddle.ai_move: the default difficulty, 0.2, and the responsiveness, 0.1.
DIFFICULTY == 200

RESPONSE == 100

\* A pixel count as a fixed-point value.
Px(n) == n * SCALE

\* --------------------------------------------------------- environment

\* random.uniform(-pi/6, pi/6) in Ball.reset_ball draws from an interval;
\* the model draws one of its two ends.
LaunchAngles == {-RDiv(PI, 6), RDiv(PI, 6)}

\* random.uniform(-height*difficulty, height*difficulty) in Paddle.ai_move
\* draws from an interval; the model draws its midpoint or one of its ends.
NoiseSamples ==
    LET span == Mul(Px(PADDLE_HEIGHT), DIFFICULTY)
    IN  {-span, 0, span}

\* Matches (departures from the menu) the environment starts in one run.
MaxMatches == 2

\* Paddle inputs in one run: key-downs of direction keys, and calls of
\* Paddle.ai_move whose random error is not the midpoint.
MaxInputs == 1

\* Simulated frames for which a match is followed once the run has had paddle
\* input, when it left the menu without a mode, or when it is not the first;
\* and those for which a match with the automated opponent is followed.  The
\* first match of two players who never touch a direction key is followed
\* without limit.
MaxFrames == 6

MaxAiFrames == 100

\* Calls a run of SpecPaddle or SpecBall makes.
MaxCalls == 2

\* Paddle positions SpecPaddle and SpecBall start from: the two ends of the
\* range Paddle.move allows and NumPaddleSteps - 1 points that divide it evenly.
NumPaddleSteps == 4

PaddleSamples ==
    LET lo == Px(BORDER)
        hi == Px(HEIGHT - BORDER - PADDLE_HEIGHT)
    IN  {lo + RDiv((hi - lo) * i, NumPaddleSteps) : i \in 0..NumPaddleSteps}

\* Angles SpecBall draws for random.uniform(-pi/6, pi/6): the two ends of the
\* interval and NumAngleSteps - 1 points that divide it evenly.
NumAngleSteps == 6

AngleSamples ==
    LET lo == -RDiv(PI, 6)
        hi == RDiv(PI, 6)
    IN  {lo + RDiv((hi - lo) * i, NumAngleSteps) : i \in 0..NumAngleSteps}

\* Speeds SpecBall starts from, among those reset_ball and
\* check_paddle_collision can produce (the base speed plus a number of
\* gains): every fifth one, and the two highest.
SpeedSamples ==
    LET top == (Px(MAX_SPEED) - Px(BASE_SPEED)) \div SPEED_STEP
    IN  {Px(BASE_SPEED) + k * SPEED_STEP :
            k \in {j \in 0..top : j % 5 = 0 \/ j >= top - 1}}

\* Ball heights SpecPaddle passes to Paddle.ai_move: the two ends of the
\* playfield and NumBallSteps - 1 points that divide it evenly.
NumBallSteps == 3

BallYSamples == {RDiv(Px(HEIGHT) * i, NumBallSteps) : i \in 0..NumBallSteps}

\* The keys main() reacts to.
DirectionKeys == {"w", "s", "up", "down"}

CommandKeys == {"q", "space", "p", "r", "1", "2"}

\* ----------------------------------------------------------------- state

VARIABLES
    score_left, score_right,    \* module globals
    game_state, winner, game_mode,
    left_paddle, right_paddle,  \* main(): Paddle objects, [x, y]
    ball,                       \* main(): the Ball, [x, y, vx, vy, speed]
    left_up, left_down,         \* main(): latched direction flags
    right_up, right_down,
    running,                    \* main(): the loop flag
    pressed,                    \* the direction keys the players hold down
    pc,                         \* "loop" inside the frame loop, "exited" after it
    last,                       \* what the latest simulation step or call did
    held,                       \* entity state recorded when the game was paused
    matches,                    \* matches started so far
    inputs,                     \* paddle inputs so far
    frames,                     \* simulated frames of the match, counted up to FrameCap
    calls                       \* calls made so far in SpecPaddle and SpecBall

globals == <<score_left, score_right, game_state, winner, game_mode>>

flags == <<left_up, left_down, right_up, right_down>>

entities == <<left_paddle, right_paddle, ball>>

budget == <<matches, inputs, frames, calls>>

vars == <<globals, entities, flags, running, pressed, pc, last, held, budget>>

\* ---------------------------------------------------------------- Paddle

\* Paddle.move without its lower clamp.
PaddleMoveNoFloor(p, direction) ==
    LET y1 == p.y + Px(PADDLE_SPEED) * direction
    IN  [p EXCEPT !.y = Min(Px(HEIGHT - BORDER - PADDLE_HEIGHT), y1)]

\* Paddle.move
PaddleMove(p, direction) ==
    LET y1 == p.y + Px(PADDLE_SPEED) * direction
    IN  [p EXCEPT !.y = Max(Px(BORDER), Min(Px(HEIGHT - BORDER - PADDLE_HEIGHT), y1))]

\* Paddle.ai_move; noise is the value random.uniform returned.
PaddleAiMove(p, ball_y, noise) ==
    LET center_y == p.y + Px(PADDLE_HEIGHT \div 2)
        target_y == ball_y + noise
        diff_y == target_y - center_y
        raw == Mul(diff_y, RESPONSE)
        move_amount == IF Abs(raw) > Px(PADDLE_SPEED)
                       THEN (IF raw > 0 THEN Px(PADDLE_SPEED) ELSE -Px(PADDLE_SPEED))
                       ELSE raw
        y1 == p.y + move_amount
    IN  [p EXCEPT !.y = Max(Px(BORDER), Min(Px(HEIGHT - BORDER - PADDLE_HEIGHT), y1))]

\* ------------------------------------------------------------------ Ball

\* Ball.reset_ball turning the launch by a quarter turn instead of a half.
ResetBallQuarterTurn(b, angle0, flip) ==
    LET speed == Px(BASE_SPEED)
        angle == IF flip THEN angle0 + RDiv(PI, 2) ELSE angle0
    IN  [x |-> Px(WIDTH \div 2), y |-> Px(HEIGHT \div 2),
         vx |-> Mul(speed, Cos(angle)), vy |-> Mul(speed, Sin(angle)),
         speed |-> speed]

\* Ball.reset_ball without the assignment to self.x.
ResetBallKeepsX(b, angle0, flip) ==
    LET speed == Px(BASE_SPEED)
        angle == IF flip THEN angle0 + PI ELSE angle0
    IN  [x |-> b.x, y |-> Px(HEIGHT \div 2),
         vx |-> Mul(speed, Cos(angle)), vy |-> Mul(speed, Sin(angle)),
         speed |-> speed]

\* Ball.reset_ball; angle0 and flip are the values random.uniform and
\* random.choice returned.
ResetBall(b, angle0, flip) ==
    LET speed == Px(BASE_SPEED)
        angle == IF flip THEN angle0 + PI ELSE angle0
    IN  [x |-> Px(WIDTH \div 2), y |-> Px(HEIGHT \div 2),
         vx |-> Mul(speed, Cos(angle)), vy |-> Mul(speed, Sin(angle)),
         speed |-> speed]

\* Ball.update up to the score detection: position integration and wall
\* collision.  wall tells whether vy was reflected.
BallAdvance(b) ==
    LET x1 == b.x + b.vx
        y1 == b.y + b.vy
        wall == y1 - Px(RADIUS) <= Px(BORDER) \/ y1 + Px(RADIUS) >= Px(HEIGHT - BORDER)
    IN  [ball |-> [b EXCEPT !.x = x1, !.y = y1, !.vy = IF wall THEN -b.vy ELSE b.vy],
         wall |-> wall]

\* Ball.update, score detection: the side that scores in this call.
Scorer(b) == IF b.x < 0 THEN "right"
             ELSE IF b.x > Px(WIDTH) THEN "left"
             ELSE "none"

\* Ball.update with the score detection as an elif of the wall collision.
BallUpdateWallElseScore(b, sl, sr, angle0, flip) ==
    LET adv == BallAdvance(b)
        side == IF adv.wall THEN "none" ELSE Scorer(adv.ball)
    IN  [ball |-> IF side = "none" THEN adv.ball ELSE ResetBall(adv.ball, angle0, flip),
         score_left |-> IF side = "left" THEN sl + 1 ELSE sl,
         score_right |-> IF side = "right" THEN sr + 1 ELSE sr,
         wall |-> adv.wall,
         scored |-> side]

\* Ball.update; sl and sr are the global scores, angle0 and flip what the
\* random source returns if reset_ball is called.
BallUpdate(b, sl, sr, angle0, flip) ==
    LET adv == BallAdvance(b)
        side == Scorer(adv.ball)
    IN  [ball |-> IF side = "none" THEN adv.ball ELSE ResetBall(adv.ball, angle0, flip),
         score_left |-> IF side = "left" THEN sl + 1 ELSE sl,
         score_right |-> IF side = "right" THEN sr + 1 ELSE sr,
         wall |-> adv.wall,
         scored |-> side]

\* Ball.check_paddle_collision: the overlap test.
Overlaps(b, paddle) ==
    /\ b.x - Px(RADIUS) <= paddle.x + Px(PADDLE_WIDTH)
    /\ b.x + Px(RADIUS) >= paddle.x
    /\ b.y - Px(RADIUS) <= paddle.y + Px(PADDLE_HEIGHT)
    /\ b.y + Px(RADIUS) >= paddle.y

\* Ball.check_paddle_collision: hit_pos.
HitPos(b, paddle) ==
    LET paddle_center == paddle.y + Px(PADDLE_HEIGHT \div 2)
    IN  RDiv(b.y - paddle_center, PADDLE_HEIGHT \div 2)

\* Ball.check_paddle_collision gaining speed without the cap.
BounceUncapped(b, paddle) ==
    LET bounce_angle == RDiv(Mul(HitPos(b, paddle), PI), 3)
        vx1 == IF paddle.x < Px(WIDTH \div 2) THEN Abs(b.vx) ELSE -Abs(b.vx)
        vy1 == Mul(b.speed, Sin(bounce_angle))
        speed1 == b.speed + SPEED_STEP
        speed_magnitude == Sqrt(vx1 * vx1 + vy1 * vy1)
    IN  [b EXCEPT !.vx = Mul(RDiv(vx1 * SCALE, speed_magnitude), speed1),
                  !.vy = Mul(RDiv(vy1 * SCALE, speed_magnitude), speed1),
                  !.speed = speed1]

\* Ball.check_paddle_collision without the scaling of the velocity to the speed.
BounceUnscaled(b, paddle) ==
    LET bounce_angle == RDiv(Mul(HitPos(b, paddle), PI), 3)
        vx1 == IF paddle.x < Px(WIDTH \div 2) THEN Abs(b.vx) ELSE -Abs(b.vx)
        vy1 == Mul(b.speed, Sin(bounce_angle))
        speed1 == Min(Px(MAX_SPEED), b.speed + SPEED_STEP)
    IN  [b EXCEPT !.vx = vx1, !.vy = vy1, !.speed = speed1]

\* Ball.check_paddle_collision without the assignment of vy from the angle.
BounceKeepsVy(b, paddle) ==
    LET vx1 == IF paddle.x < Px(WIDTH \div 2) THEN Abs(b.vx) ELSE -Abs(b.vx)
        vy1 == b.vy
        speed1 == Min(Px(MAX_SPEED), b.speed + SPEED_STEP)
        speed_magnitude == Sqrt(vx1 * vx1 + vy1 * vy1)
    IN  [b EXCEPT !.vx = Mul(RDiv(vx1 * SCALE, speed_magnitude), speed1),
                  !.vy = Mul(RDiv(vy1 * SCALE, speed_magnitude), speed1),
                  !.speed = speed1]

\* Ball.check_paddle_collision: the ball after a detected collision.
Bounce(b, paddle) ==
    LET bounce_angle == RDiv(Mul(HitPos(b, paddle), PI), 3)
        vx1 == IF paddle.x < Px(WIDTH \div 2) THEN Abs(b.vx) ELSE -Abs(b.vx)
        vy1 == Mul(b.speed, Sin(bounce_angle))
        speed1 == Min(Px(MAX_SPEED), b.speed + SPEED_STEP)
        speed_magnitude == Sqrt(vx1 * vx1 + vy1 * vy1)
    IN  [b EXCEPT !.vx = Mul(RDiv(vx1 * SCALE, speed_magnitude), speed1),
                  !.vy = Mul(RDiv(vy1 * SCALE, speed_magnitude), speed1),
                  !.speed = speed1]

\* Ball.check_paddle_collision
CheckPaddleCollision(b, paddle) ==
    IF Overlaps(b, paddle) THEN Bounce(b, paddle) ELSE b

\* ----------------------------------------------------------- match state

\* The module globals reset_game reads and writes, as one record.
Globals == [score_left |-> score_left, score_right |-> score_right,
            game_state |-> game_state, game_mode |-> game_mode]

\* reset_game leaving game_mode alone in its game_over branch.
ResetGameKeepsMode(g) ==
    IF g.game_state = "game_over"
    THEN [g EXCEPT !.score_left = 0, !.score_right = 0, !.game_state = "menu"]
    ELSE [g EXCEPT !.score_left = 0, !.score_right = 0,
                   !.game_state = "playing"]

\* reset_game without its game_over branch.
ResetGameAlwaysPlaying(g) ==
    [g EXCEPT !.score_left = 0, !.score_right = 0, !.game_state = "playing"]

\* reset_game that does not resume a game in its else branch.
ResetGameKeepsState(g) ==
    IF g.game_state = "game_over"
    THEN [g EXCEPT !.score_left = 0, !.score_right = 0,
                   !.game_state = "menu", !.game_mode = "none"]
    ELSE [g EXCEPT !.score_left = 0, !.score_right = 0]

\* reset_game
ResetGame(g) ==
    IF g.game_state = "game_over"
    THEN [g EXCEPT !.score_left = 0, !.score_right = 0,
                   !.game_state = "menu", !.game_mode = "none"]
    ELSE [g EXCEPT !.score_left = 0, !.score_right = 0,
                   !.game_state = "playing"]

\* main(), KEYDOWN: the chain on Space, P and R (Q only clears running).
CommandKey(g, key) ==
    CASE key = "space" ->
            IF g.game_state = "menu" /\ g.game_mode # "none"
            THEN ResetGame([g EXCEPT !.game_state = "playing"])
            ELSE IF g.game_state = "playing" THEN [g EXCEPT !.game_state = "paused"]
            ELSE IF g.game_state = "paused" THEN [g EXCEPT !.game_state = "playing"]
            ELSE g
      [] key = "p" ->
            IF g.game_state = "playing" THEN [g EXCEPT !.game_state = "paused"]
            ELSE IF g.game_state = "paused" THEN [g EXCEPT !.game_state = "playing"]
            ELSE g
      [] key = "r" -> ResetGame(g)
      [] OTHER -> g

\* main(), KEYDOWN: mode selection with key 2 choosing the mode of key 1.
ModeSelectSameMode(g, key) ==
    IF g.game_state = "menu" /\ key \in {"1", "2"}
    THEN ResetGame([g EXCEPT !.game_mode = "player_vs_player", !.game_state = "playing"])
    ELSE g

\* main(), KEYDOWN: mode selection in the menu.
ModeSelect(g, key) ==
    IF g.game_state = "menu" /\ key = "1"
    THEN ResetGame([g EXCEPT !.game_mode = "player_vs_player", !.game_state = "playing"])
    ELSE IF g.game_state = "menu" /\ key = "2"
    THEN ResetGame([g EXCEPT !.game_mode = "player_vs_ai", !.game_state = "playing"])
    ELSE g

\* The latch without the test of game_state.
LatchInAnyState(g, key, value, flag, name) ==
    IF /\ key = name
       /\ (name \in {"up", "down"} => g.game_mode = "player_vs_player")
    THEN value
    ELSE flag

\* main(), KEYDOWN and KEYUP: the latched flag of a direction key becomes
\* value, under the state and mode in force when the paddle controls run.
Latch(g, key, value, flag, name) ==
    IF /\ g.game_state = "playing"
       /\ key = name
       /\ (name \in {"up", "down"} => g.game_mode = "player_vs_player")
    THEN value
    ELSE flag

\* What the model keeps of the moment the game was paused.
Snapshot == <<left_paddle, right_paddle, ball, score_left, score_right,
              game_mode, left_up, left_down, right_up, right_down>>

\* The record of a pause: taken on entering "paused", dropped on leaving it.
Held(before, after) ==
    IF after = "paused" THEN (IF before = "paused" THEN held ELSE Snapshot)
    ELSE <<>>

\* main(): one pygame.KEYDOWN event.  The keyboard sends it for a key that
\* was up (main() enables no key repeat).
KeyDown(key) ==
    /\ pc = "loop"
    /\ key \notin pressed
    /\ LET g1 == CommandKey(Globals, key)
           g2 == ModeSelect(g1, key)
           starts == game_state = "menu" /\ g2.game_state = "playing"
           latches == <<Latch(g2, key, TRUE, left_up, "w"),
                        Latch(g2, key, TRUE, left_down, "s"),
                        Latch(g2, key, TRUE, right_up, "up"),
                        Latch(g2, key, TRUE, right_down, "down")>>
       IN  /\ starts => matches < MaxMatches
           /\ key \in DirectionKeys => inputs < MaxInputs /\ frames < MaxFrames
           /\ running' = IF key = "q" THEN FALSE ELSE running
           /\ score_left' = g2.score_left
           /\ score_right' = g2.score_right
           /\ game_state' = g2.game_state
           /\ game_mode' = g2.game_mode
           /\ left_up' = latches[1]
           /\ left_down' = latches[2]
           /\ right_up' = latches[3]
           /\ right_down' = latches[4]
           /\ held' = Held(game_state, g2.game_state)
           /\ matches' = IF starts THEN matches + 1 ELSE matches
           /\ inputs' = IF key \in DirectionKeys THEN inputs + 1 ELSE inputs
           /\ pressed' = IF key \in DirectionKeys THEN pressed \cup {key} ELSE pressed
           /\ frames' = IF starts THEN 0 ELSE frames
    /\ UNCHANGED <<winner, entities, pc, last, calls>>

\* main(): one pygame.KEYUP event.  The keyboard sends it for a key that
\* was down.
KeyUp(key) ==
    /\ pc = "loop"
    /\ key \in pressed
    /\ pressed' = pressed \ {key}
    /\ left_up' = Latch(Globals, key, FALSE, left_up, "w")
    /\ left_down' = Latch(Globals, key, FALSE, left_down, "s")
    /\ right_up' = Latch(Globals, key, FALSE, right_up, "up")
    /\ right_down' = Latch(Globals, key, FALSE, right_down, "down")
    /\ UNCHANGED <<globals, entities, running, pc, last, held, budget>>

\* main(): one pygame.QUIT event.
QuitEvent ==
    /\ pc = "loop"
    /\ running' = FALSE
    /\ UNCHANGED <<globals, entities, flags, pressed, pc, last, held, budget>>

\* main(): the paddle movement of the game logic.
MovedLeft ==
    LET p1 == IF left_up THEN PaddleMove(left_paddle, -1) ELSE left_paddle
    IN  IF left_down THEN PaddleMove(p1, 1) ELSE p1

MovedRight(noise) ==
    IF game_mode = "player_vs_player"
    THEN LET p1 == IF right_up THEN PaddleMove(right_paddle, -1) ELSE right_paddle
         IN  IF right_down THEN PaddleMove(p1, 1) ELSE p1
    ELSE IF game_mode = "player_vs_ai"
    THEN PaddleAiMove(right_paddle, ball.y, noise)
    ELSE right_paddle

\* The win condition naming the other side.
WinnerOfSwapped(sl, sr) == IF sl >= max_score THEN "right"
                           ELSE IF sr >= max_score THEN "left"
                           ELSE "none"

\* The win condition with > for >=.
WinnerOfStrict(sl, sr) == IF sl > max_score THEN "left"
                          ELSE IF sr > max_score THEN "right"
                          ELSE "none"

\* The win condition without its elif branch.
WinnerOfLeftOnly(sl, sr) == IF sl >= max_score THEN "left" ELSE "none"

\* main(): the win condition, from the scores after the ball update.
WinnerOf(sl, sr) == IF sl >= max_score THEN "left"
                    ELSE IF sr >= max_score THEN "right"
                    ELSE "none"

\* main(): the game logic of a frame while game_state = "playing".  noise,
\* angle0 and flip are the values the random source returns when asked.
Simulate(noise, angle0, flip) ==
    LET lp == MovedLeft
        rp == MovedRight(noise)
        upd == BallUpdate(ball, score_left, score_right, angle0, flip)
        b2 == CheckPaddleCollision(upd.ball, lp)
        b3 == CheckPaddleCollision(b2, rp)
        win == WinnerOf(upd.score_left, upd.score_right)
    IN  /\ left_paddle' = lp
        /\ right_paddle' = rp
        /\ ball' = b3
        /\ score_left' = upd.score_left
        /\ score_right' = upd.score_right
        /\ winner' = IF win = "none" THEN winner ELSE win
        /\ game_state' = IF win = "none" THEN game_state ELSE "game_over"
        /\ last' = [op |-> "frame", wall |-> upd.wall, scored |-> upd.scored,
                    hit_left |-> Overlaps(upd.ball, lp),
                    hit_right |-> Overlaps(b2, rp)]

\* The simulated frames left to a run.
Followed ==
    /\ inputs > 0 \/ game_mode = "none" \/ matches > 1 => frames < MaxFrames
    /\ game_mode = "player_vs_ai" => frames < MaxAiFrames

\* The frame counter stops at the larger of the two limits.
FrameCap == Max(MaxFrames, MaxAiFrames)

\* The pass of the frame loop without the test of running.
FrameKeepsLooping ==
    /\ pc = "loop"
    /\ IF game_state = "playing"
       THEN /\ Followed
            /\ frames' = Min(frames + 1, FrameCap)
            /\ \E noise \in (IF game_mode = "player_vs_ai" THEN NoiseSamples ELSE {0}) :
               /\ noise # 0 => inputs < MaxInputs
               /\ inputs' = IF noise # 0 THEN inputs + 1 ELSE inputs
               /\ LET side == Scorer(BallAdvance(ball).ball)
                  IN  \E angle0 \in (IF side = "none" THEN {0} ELSE LaunchAngles) :
                      \E flip \in (IF side = "none" THEN {FALSE} ELSE BOOLEAN) :
                          Simulate(noise, angle0, flip)
       ELSE UNCHANGED <<score_left, score_right, game_state, winner, entities,
                        last, inputs, frames>>
    /\ pc' = "loop"
    /\ UNCHANGED <<game_mode, flags, running, pressed, held, matches, calls>>

\* The pass of the frame loop with the game logic run while paused too.
FrameRunsWhilePaused ==
    /\ pc = "loop"
    /\ IF game_state \in {"playing", "paused"}
       THEN /\ Followed
            /\ frames' = Min(frames + 1, FrameCap)
            /\ \E noise \in (IF game_mode = "player_vs_ai" THEN NoiseSamples ELSE {0}) :
               /\ noise # 0 => inputs < MaxInputs
               /\ inputs' = IF noise # 0 THEN inputs + 1 ELSE inputs
               /\ LET side == Scorer(BallAdvance(ball).ball)
                  IN  \E angle0 \in (IF side = "none" THEN {0} ELSE LaunchAngles) :
                      \E flip \in (IF side = "none" THEN {FALSE} ELSE BOOLEAN) :
                          Simulate(noise, angle0, flip)
       ELSE UNCHANGED <<score_left, score_right, game_state, winner, entities,
                        last, inputs, frames>>
    /\ pc' = IF running THEN "loop" ELSE "exited"
    /\ UNCHANGED <<game_mode, flags, running, pressed, held, matches, calls>>

\* main(): the rest of one pass of the frame loop after the events: the game
\* logic, the drawing (no effect on this state) and the loop test.
Frame ==
    /\ pc = "loop"
    /\ IF game_state = "playing"
       THEN /\ Followed
            /\ frames' = Min(frames + 1, FrameCap)
            /\ \E noise \in (IF game_mode = "player_vs_ai" THEN NoiseSamples ELSE {0}) :
               /\ noise # 0 => inputs < MaxInputs
               /\ inputs' = IF noise # 0 THEN inputs + 1 ELSE inputs
               /\ LET side == Scorer(BallAdvance(ball).ball)
                  IN  \E angle0 \in (IF side = "none" THEN {0} ELSE LaunchAngles) :
                      \E flip \in (IF side = "none" THEN {FALSE} ELSE BOOLEAN) :
                          Simulate(noise, angle0, flip)
       ELSE UNCHANGED <<score_left, score_right, game_state, winner, entities,
                        last, inputs, frames>>
    /\ pc' = IF running THEN "loop" ELSE "exited"
    /\ UNCHANGED <<game_mode, flags, running, pressed, held, matches, calls>>

\* main(): the state after the game objects are created, but for the ball.
Constructed ==
    /\ score_left = 0
    /\ score_right = 0
    /\ game_state = "menu"
    /\ winner = ""
    /\ game_mode = "none"
    /\ left_up = FALSE
    /\ left_down = FALSE
    /\ right_up = FALSE
    /\ right_down = FALSE
    /\ running = TRUE
    /\ pressed = {}
    /\ pc = "loop"
    /\ last = [op |-> "init", wall |-> FALSE, scored |-> "none",
               hit_left |-> FALSE, hit_right |-> FALSE]
    /\ held = <<>>
    /\ matches = 0
    /\ inputs = 0
    /\ frames = 0
    /\ calls = 0

\* main(): the state after the game objects are created; the Ball
\* constructor calls reset_ball.
Init ==
    /\ Constructed
    /\ left_paddle = [x |-> Px(30), y |-> Px(HEIGHT \div 2 - 40)]
    /\ right_paddle = [x |-> Px(WIDTH - 45), y |-> Px(HEIGHT \div 2 - 40)]
    /\ \E angle0 \in LaunchAngles : \E flip \in BOOLEAN :
         ball = ResetBall([x |-> Px(WIDTH \div 2), y |-> Px(HEIGHT \div 2)], angle0, flip)

Next ==
    \/ \E key \in CommandKeys \cup DirectionKeys : KeyDown(key)
    \/ \E key \in DirectionKeys : KeyUp(key)
    \/ QuitEvent
    \/ Frame

Spec == Init /\ [][Next]_vars

\* ---------------------------------------------- the match and its phases

\* A pass of the frame loop that runs the game logic.
Simulates == game_state = "playing" /\ Frame

\* C2: in a frame run while game_state = "playing", a side whose score has
\* reached max_score after the ball update ends the frame with game_state =
\* "game_over" and winner naming that side; and nothing else ever makes
\* game_state "game_over".
WinDetected ==
    /\ (Simulates /\ score_left' >= max_score)
         => (game_state' = "game_over" /\ winner' = "left")
    /\ (Simulates /\ score_left' < max_score /\ score_right' >= max_score)
         => (game_state' = "game_over" /\ winner' = "right")
    /\ (game_state # "game_over" /\ game_state' = "game_over")
         => (Simulates /\ (score_left' >= max_score \/ score_right' >= max_score))

C2_WinDetection == [][WinDetected]_vars

\* The right side has just scored its tenth point and won.
C2_Witness ==
    /\ game_state = "game_over"
    /\ winner = "right"
    /\ score_right = max_score
    /\ score_left = max_score - 1
    /\ last.scored = "right"

\* C3: in the menu, key 1 or key 2 makes game_state "playing", sets game_mode
\* to player_vs_player (key 1) or player_vs_ai (key 2), and leaves both
\* scores 0.
ModeSelected ==
    /\ (game_state = "menu" /\ KeyDown("1"))
         => /\ game_state' = "playing"
            /\ game_mode' = "player_vs_player"
            /\ score_left' = 0 /\ score_right' = 0
    /\ (game_state = "menu" /\ KeyDown("2"))
         => /\ game_state' = "playing"
            /\ game_mode' = "player_vs_ai"
            /\ score_left' = 0 /\ score_right' = 0

C3_ModeSelect == [][ModeSelected]_vars

\* A second match has just been started against the automated opponent, from
\* the menu a won match led back to, and no frame of it has run.
C3_Witness ==
    /\ game_state = "playing"
    /\ game_mode = "player_vs_ai"
    /\ matches = 2
    /\ frames = 0
    /\ winner = "left"
    /\ last.scored = "left"
    /\ score_left = 0 /\ score_right = 0

\* C4: a pause toggle (Space or P) while playing pauses the game; while it is
\* paused the paddles, the ball, the scores, the mode and the latched flags
\* keep the values they had at that toggle; and a pause toggle while paused
\* returns to "playing" with them all as they were.
PauseToggled ==
    \A key \in {"space", "p"} :
        /\ (game_state = "playing" /\ KeyDown(key))
             => (game_state' = "paused" /\ held' = Snapshot)
        /\ (game_state = "paused" /\ KeyDown(key))
             => (game_state' = "playing" /\ Snapshot' = held)

C4_PauseRoundTrip ==
    /\ [](game_state = "paused" => held = Snapshot)
    /\ [][PauseToggled]_vars

\* The game is paused with a key held down and the left paddle moved.
C4_Witness ==
    /\ game_state = "paused"
    /\ left_up
    /\ left_paddle.y < Px(HEIGHT \div 2 - 40)
    /\ score_left + score_right = 0
    /\ frames > 1

\* C5: from "game_over", key R makes game_state "menu", game_mode "none" and
\* both scores 0.
ResetAfterGameOver ==
    (game_state = "game_over" /\ KeyDown("r"))
        => /\ game_state' = "menu"
           /\ game_mode' = "none"
           /\ score_left' = 0 /\ score_right' = 0

C5_ResetFromGameOver == [][ResetAfterGameOver]_vars

\* Back in the menu after the right side won.
C5_Witness ==
    /\ game_state = "menu"
    /\ game_mode = "none"
    /\ winner = "right"
    /\ last.scored = "right"
    /\ score_left = 0 /\ score_right = 0

\* C6: from "playing" or "paused", key R makes both scores 0 and game_state
\* "playing", and leaves game_mode as it is.
ResetInPlay ==
    (game_state \in {"playing", "paused"} /\ KeyDown("r"))
        => /\ score_left' = 0 /\ score_right' = 0
           /\ game_state' = "playing"
           /\ game_mode' = game_mode

C6_ResetKeepsMode == [][ResetInPlay]_vars

\* The latest simulated frame scored a point, and the scores are 0 to 0 in a
\* first match still being played: R was pressed since.
C6_Witness ==
    /\ game_state = "playing"
    /\ game_mode = "player_vs_player"
    /\ matches = 1
    /\ last.scored # "none"
    /\ score_left = 0 /\ score_right = 0

\* C8: a frame's Ball.update raises at most one score, by 1, and leaves the
\* ball at the centre when it does; and the simulated frame after one that
\* scored does not score.
ScoredOnce ==
    Simulates =>
        LET dl == score_left' - score_left
            dr == score_right' - score_right
        IN  /\ <<dl, dr>> \in {<<0, 0>>, <<1, 0>>, <<0, 1>>}
            /\ dl + dr = 1 => /\ ball'.x = Px(WIDTH \div 2)
                              /\ ball'.y = Px(HEIGHT \div 2)
                              /\ last'.scored # "none"
            /\ (last.op = "frame" /\ last.scored # "none") => dl + dr = 0

C8_OneScorePerExit == [][ScoredOnce]_vars

\* The right side has just scored its second point; the ball is back at
\* the centre.
C8_Witness ==
    /\ last.op = "frame"
    /\ last.scored = "right"
    /\ score_right = 2
    /\ ball.x = Px(WIDTH \div 2)
    /\ game_state = "playing"

\* C9: both scores are integers in 0..max_score, and they are never both
\* max_score.
C9_NoTie ==
    /\ score_left \in 0..max_score
    /\ score_right \in 0..max_score
    /\ ~(score_left = max_score /\ score_right = max_score)

\* The closest a match gets: 10 to 9.
C9_Witness ==
    /\ score_left = max_score
    /\ score_right = max_score - 1
    /\ game_state = "game_over"

\* ------------------------------------------------- the paddle on its own

\* Paddle.move and Paddle.ai_move called in any order on either paddle, from
\* any sampled pair of places inside the range.  Nothing else runs.
InitPaddle ==
    /\ Constructed
    /\ \E yl \in PaddleSamples : left_paddle = [x |-> Px(30), y |-> yl]
    /\ \E yr \in PaddleSamples : right_paddle = [x |-> Px(WIDTH - 45), y |-> yr]
    /\ ball = ResetBall([x |-> Px(WIDTH \div 2), y |-> Px(HEIGHT \div 2)], 0, FALSE)

Called(op) ==
    /\ calls < MaxCalls
    /\ calls' = calls + 1
    /\ last' = [last EXCEPT !.op = op]
    /\ UNCHANGED <<globals, flags, running, pressed, pc, held, matches, inputs, frames>>

CallMove ==
    \E direction \in {-1, 0, 1} :
        /\ Called("move")
        /\ \/ left_paddle' = PaddleMove(left_paddle, direction)
              /\ UNCHANGED <<right_paddle, ball>>
           \/ right_paddle' = PaddleMove(right_paddle, direction)
              /\ UNCHANGED <<left_paddle, ball>>

CallAiMove ==
    \E ball_y \in BallYSamples : \E noise \in NoiseSamples :
        /\ Called("ai_move")
        /\ \/ left_paddle' = PaddleAiMove(left_paddle, ball_y, noise)
              /\ UNCHANGED <<right_paddle, ball>>
           \/ right_paddle' = PaddleAiMove(right_paddle, ball_y, noise)
              /\ UNCHANGED <<left_paddle, ball>>

NextPaddle == CallMove \/ CallAiMove

SpecPaddle == InitPaddle /\ [][NextPaddle]_vars

\* C1: whatever sequence of Paddle.move(direction in {-1, 0, +1}) and
\* Paddle.ai_move(ball_y) calls is made on either paddle, its y stays
\* within 20 <= y <= HEIGHT - 20 - height.
PaddleInRange(p) ==
    Px(BORDER) <= p.y /\ p.y <= Px(HEIGHT - BORDER - PADDLE_HEIGHT)

C1_PaddlesStayInRange == PaddleInRange(left_paddle) /\ PaddleInRange(right_paddle)

\* Both ends are met: after the calls one paddle rests on the upper end of
\* the range and the other on the lower end, the latest call being ai_move.
C1_Witness ==
    /\ calls = MaxCalls
    /\ last.op = "ai_move"
    /\ left_paddle.y = Px(BORDER)
    /\ right_paddle.y = Px(HEIGHT - BORDER - PADDLE_HEIGHT)

\* --------------------------------------------------- the ball on its own

\* Places SpecBall puts the ball: off either edge, in touch with the face of
\* either paddle, the centre; level with the left paddle's centre, at its
\* top or bottom edge, just in reach past either edge, or by a wall.
BallXSamples ==
    {-Px(1), Px(30 + PADDLE_WIDTH + RADIUS), Px(WIDTH \div 2),
     Px(WIDTH - 45 - RADIUS), Px(WIDTH + 1)}

BallYOffsets ==
    {-Px(PADDLE_HEIGHT \div 2 + RADIUS), -Px(PADDLE_HEIGHT \div 2), 0,
     Px(PADDLE_HEIGHT \div 2), Px(PADDLE_HEIGHT \div 2 + RADIUS)}

\* Directions SpecBall launches the ball in: angles from the horizontal, to
\* the right or to the left.
DirectionSamples == {-RDiv(PI, 3), -RDiv(PI, 6), 0, RDiv(PI, 6), RDiv(PI, 3)}

\* Ball.update, Ball.reset_ball and Ball.check_paddle_collision called in any
\* order from any sampled ball and pair of paddles.  Nothing else runs.
InitBall ==
    /\ Constructed
    /\ \E yp \in PaddleSamples :
         /\ left_paddle = [x |-> Px(30), y |-> yp]
         /\ right_paddle = [x |-> Px(WIDTH - 45), y |-> yp]
         /\ \E x \in BallXSamples : \E off \in BallYOffsets :
            \E speed \in SpeedSamples : \E a \in DirectionSamples :
            \E flip \in BOOLEAN :
              ball = [x |-> x,
                      y |-> Max(Px(BORDER + RADIUS) + 1,
                                Min(Px(HEIGHT - BORDER - RADIUS) - 1,
                                    yp + Px(PADDLE_HEIGHT \div 2) + off)),
                      vx |-> IF flip THEN -Mul(speed, Cos(a)) ELSE Mul(speed, Cos(a)),
                      vy |-> Mul(speed, Sin(a)),
                      speed |-> speed]

CalledBall(op, wall, scored, hit_left, hit_right) ==
    /\ calls < MaxCalls
    /\ calls' = calls + 1
    /\ last' = [op |-> op, wall |-> wall, scored |-> scored,
                hit_left |-> hit_left, hit_right |-> hit_right]
    /\ UNCHANGED <<game_state, winner, game_mode, left_paddle, right_paddle,
                   flags, running, pressed, pc, held, matches, inputs, frames>>

CallResetBall ==
    \E angle0 \in AngleSamples : \E flip \in BOOLEAN :
        /\ CalledBall("reset_ball", FALSE, "none", FALSE, FALSE)
        /\ ball' = ResetBall(ball, angle0, flip)
        /\ UNCHANGED <<score_left, score_right>>

CallUpdate ==
    \E angle0 \in (IF Scorer(BallAdvance(ball).ball) = "none" THEN {0} ELSE AngleSamples) :
    \E flip \in (IF Scorer(BallAdvance(ball).ball) = "none" THEN {FALSE} ELSE BOOLEAN) :
        LET upd == BallUpdate(ball, score_left, score_right, angle0, flip)
        IN  /\ CalledBall("update", upd.wall, upd.scored, FALSE, FALSE)
            /\ ball' = upd.ball
            /\ score_left' = upd.score_left
            /\ score_right' = upd.score_right

CallCheckPaddleCollision ==
    /\ \/ /\ CalledBall("check_paddle_collision", FALSE, "none",
                       Overlaps(ball, left_paddle), FALSE)
          /\ ball' = CheckPaddleCollision(ball, left_paddle)
       \/ /\ CalledBall("check_paddle_collision", FALSE, "none",
                       FALSE, Overlaps(ball, right_paddle))
          /\ ball' = CheckPaddleCollision(ball, right_paddle)
    /\ UNCHANGED <<score_left, score_right>>

NextBall == CallResetBall \/ CallUpdate \/ CallCheckPaddleCollision

SpecBall == InitBall /\ [][NextBall]_vars

\* The length of the ball's velocity vector.
Magnitude(b) == Sqrt(b.vx * b.vx + b.vy * b.vy)

\* Two parts in a thousand of a speed: what the rounding of the fixed-point
\* sine, cosine and square root can add up to.
Tolerance(speed) == RDiv(2 * speed, SCALE)

\* C7: the ball's speed stays within [6, 12]; a detected paddle collision
\* raises it by exactly 0.2, or to 12 where that would pass 12; a call that
\* detects no collision and an update that scores no point leave it alone;
\* reset_ball, called directly or by a scoring update, sets it to 6.  So the
\* speed never falls but by a reset.
SpeedInRange == Px(BASE_SPEED) <= ball.speed /\ ball.speed <= Px(MAX_SPEED)

SpeedChange ==
    /\ last'.op = "check_paddle_collision" =>
         ball'.speed = IF last'.hit_left \/ last'.hit_right
                       THEN Min(Px(MAX_SPEED), ball.speed + SPEED_STEP)
                       ELSE ball.speed
    /\ last'.op = "update" =>
         ball'.speed = IF last'.scored = "none" THEN ball.speed ELSE Px(BASE_SPEED)
    /\ last'.op = "reset_ball" => ball'.speed = Px(BASE_SPEED)

C7_SpeedBounded == []SpeedInRange /\ [][SpeedChange]_vars

\* A collision was detected and left the ball at the cap.
C7_Witness ==
    /\ last.op = "check_paddle_collision"
    /\ last.hit_right
    /\ ball.speed = Px(MAX_SPEED)
    /\ calls = MaxCalls

\* C10: after reset_ball, called directly or by an update that scored, the
\* ball is at (WIDTH/2, HEIGHT/2), its speed is 6 and so is the length of its
\* velocity (up to rounding), and it heads left or right no steeper than 30
\* degrees: vx is not 0, |vy| <= |vx|, and |vy| / |vx| <= tan 30 (up to
\* rounding).
AfterReset ==
    \/ last.op = "reset_ball"
    \/ last.op = "update" /\ last.scored # "none"

C10_ResetBallLaunch ==
    AfterReset =>
        /\ ball.x = Px(WIDTH \div 2)
        /\ ball.y = Px(HEIGHT \div 2)
        /\ ball.speed = Px(BASE_SPEED)
        /\ Abs(Magnitude(ball) - Px(BASE_SPEED)) <= Tolerance(Px(BASE_SPEED))
        /\ ball.vx # 0
        /\ Abs(ball.vy) <= Abs(ball.vx)
        /\ Abs(ball.vy) * Cos(RDiv(PI, 6)) <=
             Abs(ball.vx) * Sin(RDiv(PI, 6)) + SCALE * Tolerance(Px(BASE_SPEED))

\* An update scored for the left side and relaunched the ball to the left
\* and downwards.
C10_Witness ==
    /\ last.op = "update"
    /\ last.scored = "left"
    /\ score_left = 1
    /\ ball.vx < 0
    /\ ball.vy > 0

\* ------------------------------------------------ the rebound off a paddle

\* The paddle a call of check_paddle_collision was made on.
Struck == IF last'.hit_left THEN left_paddle ELSE right_paddle

\* A call of check_paddle_collision that detected a collision.
Collides ==
    /\ last'.op = "check_paddle_collision"
    /\ last'.hit_left \/ last'.hit_right

\* C11: a detected collision with the ball's y exactly at the paddle's
\* vertical centre (hit_pos = 0) leaves the velocity purely horizontal:
\* vy = 0 and |vx| equal to the new speed.
CentreHit ==
    (Collides /\ HitPos(ball, Struck) = 0)
        => (ball'.vy = 0 /\ Abs(ball'.vx) = ball'.speed)

C11_CentreHitIsHorizontal == [][CentreHit]_vars

\* The ball met the right paddle at its centre and left it level,
\* to the left, at the speed it gained.
C11_Witness ==
    /\ last.op = "check_paddle_collision"
    /\ last.hit_right
    /\ calls = MaxCalls
    /\ ball.y = right_paddle.y + Px(PADDLE_HEIGHT \div 2)
    /\ ball.vy = 0
    /\ ball.vx = -ball.speed
    /\ ball.speed = Px(BASE_SPEED) + SPEED_STEP

\* C12: a detected collision with the ball's y exactly at the paddle's top
\* or bottom edge (hit_pos = -1 or +1) leaves the velocity at 60 degrees to
\* the horizontal, |vy| / |vx| = tan 60 (up to rounding), whatever the
\* incoming velocity.
EdgeHit ==
    (Collides /\ Abs(HitPos(ball, Struck)) = SCALE)
        => Abs(Abs(ball'.vy) * Cos(RDiv(PI, 3)) - Abs(ball'.vx) * Sin(RDiv(PI, 3)))
             <= SCALE * Tolerance(ball'.speed)

C12_EdgeHitAtSixtyDegrees == [][EdgeHit]_vars

\* C13: after every call of reset_ball, update (position integration, wall
\* reflection, score and relaunch) and check_paddle_collision, the length of
\* the ball's velocity equals its speed (up to rounding):
\* vx^2 + vy^2 = speed^2.
C13_VelocityMatchesSpeed ==
    Abs(Magnitude(ball) - ball.speed) <= Tolerance(ball.speed)

\* The ball was turned back by a wall and then struck the left paddle below
\* its centre: it leaves to the right and downwards, faster than it came.
C13_Witness ==
    /\ calls = MaxCalls
    /\ last.op = "check_paddle_collision"
    /\ last.hit_left
    /\ ball.y > left_paddle.y + Px(PADDLE_HEIGHT \div 2)
    /\ ball.y + Px(RADIUS) >= Px(HEIGHT - BORDER)
    /\ ball.vx > 0
    /\ ball.vy > 0
    /\ ball.speed > Px(BASE_SPEED)

\* ------------------------------------------------------ the opening rally

\* Angles the first launch of a match is drawn from: the two ends of
\* [-pi/6, pi/6] and NumOpeningSteps - 1 points that divide it evenly.
NumOpeningSteps == 34

OpeningAngles ==
    LET lo == -RDiv(PI, 6)
        hi == RDiv(PI, 6)
    IN  {lo + RDiv((hi - lo) * i, NumOpeningSteps) : i \in 0..NumOpeningSteps}

\* main() after key 1 in the menu: a first match of two players, the ball as
\* its constructor launched it.  From there the frames run with no key
\* touched, to the end of the match.
InitOpening ==
    /\ score_left = 0
    /\ score_right = 0
    /\ game_state = "playing"
    /\ winner = ""
    /\ game_mode = "player_vs_player"
    /\ left_up = FALSE
    /\ left_down = FALSE
    /\ right_up = FALSE
    /\ right_down = FALSE
    /\ running = TRUE
    /\ pressed = {}
    /\ pc = "loop"
    /\ last = [op |-> "init", wall |-> FALSE, scored |-> "none",
               hit_left |-> FALSE, hit_right |-> FALSE]
    /\ held = <<>>
    /\ matches = 1
    /\ inputs = 0
    /\ frames = 0
    /\ calls = 0
    /\ left_paddle = [x |-> Px(30), y |-> Px(HEIGHT \div 2 - 40)]
    /\ right_paddle = [x |-> Px(WIDTH - 45), y |-> Px(HEIGHT \div 2 - 40)]
    /\ \E angle0 \in OpeningAngles : \E flip \in BOOLEAN :
         ball = ResetBall([x |-> Px(WIDTH \div 2), y |-> Px(HEIGHT \div 2)], angle0, flip)

SpecOpening == InitOpening /\ [][Frame]_vars

\* C14, as stated: no call of Ball.update both reflects vy off the top or
\* bottom border band and awards a score.
C14_WallBounceExcludesScore == ~(last.wall /\ last.scored # "none")

\* C14, as the code has it: Ball.update reflects vy exactly when the ball,
\* moved by its velocity, reaches a border band, and awards a score exactly
\* when the moved ball is past the left or right edge, the one test not
\* depending on the other; when both happen in one call the ball is
\* relaunched from the centre at the base speed.
WallAndScoreIndependent ==
    Simulates =>
        LET x1 == ball.x + ball.vx
            y1 == ball.y + ball.vy
        IN  /\ last'.wall <=> (y1 - Px(RADIUS) <= Px(BORDER)
                               \/ y1 + Px(RADIUS) >= Px(HEIGHT - BORDER))
            /\ last'.scored = (IF x1 < 0 THEN "right"
                               ELSE IF x1 > Px(WIDTH) THEN "left" ELSE "none")
            /\ (last'.wall /\ last'.scored # "none") =>
                   /\ ball'.x = Px(WIDTH \div 2)
                   /\ ball'.y = Px(HEIGHT \div 2)
                   /\ ball'.speed = Px(BASE_SPEED)
                   /\ score_left' + score_right' = score_left + score_right + 1

C14_WallAndScoreIndependent == [][WallAndScoreIndependent]_vars

\* The first ball of the match left through the top left corner: the frame
\* that reflected it off the wall also gave the right side its point.
C14_Witness ==
    /\ last.op = "frame"
    /\ last.wall
    /\ last.scored = "right"
    /\ score_right = 1
    /\ score_left = 0
    /\ ball.x = Px(WIDTH \div 2)

\* ------------------------------------------------------ the direction keys

\* C15: the direction flags follow the key edges in whatever phase they
\* arrive, so a flag is true only while its key is held down (once the
\* key-up of W, S, Up or Down has been processed its flag is false).
C15_FlagOnlyWhileHeld ==
    /\ left_up => "w" \in pressed
    /\ left_down => "s" \in pressed
    /\ right_up => "up" \in pressed
    /\ right_down => "down" \in pressed

\* ------------------------------------------------- frames outside a match

\* C16: a pass of the frame loop whose game logic is reached with game_state
\* "menu", "paused" or "game_over" leaves both paddles, the ball (position,
\* velocity and speed) and both scores as they were.
IdleFrame ==
    (game_state # "playing" /\ Frame)
        => UNCHANGED <<left_paddle, right_paddle, ball, score_left, score_right>>

C16_UpdatesOnlyWhilePlaying == [][IdleFrame]_vars

\* The last pass of the loop ran while the game was paused with the W key's
\* flag set: the paddles and the ball are where the pause found them.
C16_Witness ==
    /\ pc = "exited"
    /\ game_state = "paused"
    /\ left_up
    /\ held = Snapshot
    /\ frames > 0

\* ------------------------------------------------------- the hit position

\* C17: whenever a frame's check_paddle_collision detects a collision, the
\* hit position (ball y - paddle centre) / (paddle height / 2) lies in
\* [-1, 1], so that the bounce angle hit_pos * 60 degrees is at most 60
\* degrees from the horizontal.
HitWithinPaddle ==
    Simulates =>
        LET b1 == BallAdvance(ball).ball
        IN  /\ last'.hit_left => Abs(HitPos(b1, left_paddle')) <= SCALE
            /\ last'.hit_right => Abs(HitPos(b1, right_paddle')) <= SCALE

C17_HitPosWithinUnit == [][HitWithinPaddle]_vars

\* ---------------------------------------------------- the start of a match

\* A key event that starts a match at 0 to 0: a mode selection in the menu,
\* or key R while playing or paused.
StartsMatch ==
    \/ game_state = "menu" /\ (KeyDown("1") \/ KeyDown("2"))
    \/ game_state \in {"playing", "paused"} /\ KeyDown("r")

\* C18: right after every event that starts a match at 0 to 0 the ball is at
\* the centre of the playfield and its speed is the base speed.
BallResetAtStart ==
    StartsMatch => /\ score_left' = 0 /\ score_right' = 0
                   /\ ball'.x = Px(WIDTH \div 2)
                   /\ ball'.y = Px(HEIGHT \div 2)
                   /\ ball'.speed = Px(BASE_SPEED)

C18_BallResetAtMatchStart == [][BallResetAtStart]_vars

\* ------------------------------------------------------ leaving the loop

\* The first frames of each match: while the loop is to go on, a match is
\* followed for fewer than MaxFrames simulated frames.
EarlyFrames == running => frames' < MaxFrames

NextQuit ==
    \/ \E key \in CommandKeys \cup DirectionKeys : KeyDown(key) /\ EarlyFrames
    \/ \E key \in DirectionKeys : KeyUp(key) /\ EarlyFrames
    \/ QuitEvent /\ EarlyFrames
    \/ Frame /\ EarlyFrames

\* The program over the first frames of its matches.  After the events of a
\* pass main() always goes on to the rest of the pass: the frame loop blocks
\* nowhere (clock.tick and the event queue return), hence the fairness.
SpecQuit == Init /\ [][NextQuit]_vars /\ WF_vars(Frame /\ EarlyFrames)

\* C19: key Q and the window's close event clear running whatever the
\* phase; running is never set again; the pass of the loop that follows
\* is the last (the loop is left at its end), it always comes, and nothing
\* runs after it.
QuitObserved ==
    /\ (QuitEvent \/ KeyDown("q")) => ~running'
    /\ ~running => ~running'
    /\ (~running /\ Frame) => pc' = "exited"
    /\ pc' = "exited" => ~running
    /\ pc = "exited" => UNCHANGED vars

C19_QuitEndsLoop ==
    /\ [][QuitObserved]_vars
    /\ (~running) ~> (pc = "exited")

\* The loop was left in the middle of a match.
C19_Witness ==
    /\ pc = "exited"
    /\ ~running
    /\ game_state = "playing"
    /\ game_mode = "player_vs_ai"
    /\ frames > 1

\* ---------------------------------------------------- the mode of a match

\* C20: whenever game_state is "playing" or "paused" a mode has been
\* selected: game_mode is player_vs_player or player_vs_ai, never "none".
C20_ModeChosenWhilePlaying ==
    game_state \in {"playing", "paused"} => game_mode # "none"

\* ---------------------------------------------------------------- the menu

\* C21: whenever game_state is "menu", game_mode is "none" and both scores
\* are 0; so the Space branch for a menu with a mode already chosen
\* (game_state = "menu" and game_mode # "none") is never taken.
C21_MenuHasNoMode ==
    game_state = "menu" => /\ game_mode = "none"
                           /\ score_left = 0
                           /\ score_right = 0

\* The menu a match won by the left side was reset to.
C21_Witness ==
    /\ game_state = "menu"
    /\ winner = "left"
    /\ last.scored = "left"
    /\ matches = 1
    /\ game_mode = "none"
    /\ score_left = 0 /\ score_right = 0

\* ------------------------------------------------------------- the winner

\* C22: whenever game_state is "game_over", exactly one score equals
\* max_score and winner names that side; whenever it is "playing" or
\* "paused" between two passes of the loop, both scores are below max_score.
C22_WinnerMatchesScores ==
    /\ game_state = "game_over" =>
         \/ score_left = max_score /\ score_right < max_score /\ winner = "left"
         \/ score_right = max_score /\ score_left < max_score /\ winner = "right"
    /\ game_state \in {"playing", "paused"} =>
         score_left < max_score /\ score_right < max_score

\* A match the left side won to nil.
C22_Witness ==
    /\ game_state = "game_over"
    /\ winner = "left"
    /\ score_left = max_score
    /\ score_right = 0

====
